---- MODULE Spec2Model ----
(***************************************************************************)
(* Model of the relation pipeline of pipeline/covid.py:                    *)
(*   HarvardResults.collect_relations -> reify_relations ->                *)
(*   RelationImporter.filter_relobjs -> invert_filtered_relobjs            *)
(*                                                                         *)
(* Python str values are sequences of code points, so that concatenation,  *)
(* str.endswith and the lexicographic order of sorted() are computed.      *)
(* A Python dict is an insertion-ordered sequence of entries [k, v] with   *)
(* pairwise distinct k; a Python list or tuple is a sequence.              *)
(***************************************************************************)
EXTENDS Integers, Sequences, FiniteSets, TLC

VARIABLES results, metadata, collect_n, pc, relations, reified_rels, filtered_rels,
          inverted_rels, previous

vars == <<results, metadata, collect_n, pc, relations, reified_rels, filtered_rels,
          inverted_rels, previous>>

----------------------------------------------------------------------------
(* Python values *)

\* Python's None: distinct from every str (no str holds the code point -1).
None == <<-1>>

\* str(x) as used by the %s conversion: the str itself, "None" for None.
Str(x) == IF x = None THEN <<78, 111, 110, 101>> ELSE x

\* a < b on str: lexicographic by code point, a proper prefix is smaller.
RECURSIVE StrLess(_, _)
StrLess(a, b) ==
    IF a = <<>> THEN b # <<>>
    ELSE IF b = <<>> THEN FALSE
    ELSE IF Head(a) # Head(b) THEN Head(a) < Head(b)
    ELSE StrLess(Tail(a), Tail(b))

\* s.endswith(suffix)
EndsWith(s, suffix) ==
    /\ Len(suffix) <= Len(s)
    /\ SubSeq(s, Len(s) - Len(suffix) + 1, Len(s)) = suffix

\* seq[:n]
Slice(seq, n) == SubSeq(seq, 1, IF n < Len(seq) THEN n ELSE Len(seq))

\* list(reversed(seq))
Reversed(seq) == [i \in 1..Len(seq) |-> seq[Len(seq) + 1 - i]]

(* dict operations on insertion-ordered entry sequences *)
Keys(d) == [i \in 1..Len(d) |-> d[i].k]
Values(d) == [i \in 1..Len(d) |-> d[i].v]
HasKey(d, key) == \E i \in 1..Len(d) : d[i].k = key
Lookup(d, key) == d[CHOOSE i \in 1..Len(d) : d[i].k = key].v
\* d.get(key): the value, None when the key is absent
DictGet(d, key) == IF HasKey(d, key) THEN Lookup(d, key) ELSE None
\* d[key] = value
DictSet(d, key, value) ==
    IF HasKey(d, key)
    THEN [i \in 1..Len(d) |-> IF d[i].k = key THEN [k |-> key, v |-> value]
                                                ELSE d[i]]
    ELSE Append(d, [k |-> key, v |-> value])
\* d.setdefault(key, value), as the dict it leaves behind
SetDefault(d, key, value) ==
    IF HasKey(d, key) THEN d ELSE Append(d, [k |-> key, v |-> value])

----------------------------------------------------------------------------
(* Names used by the code *)

Activation == <<65, 99, 116, 105, 118, 97, 116, 105, 111, 110>>
Inhibition == <<73, 110, 104, 105, 98, 105, 116, 105, 111, 110>>
IncreaseAmount ==
    <<73, 110, 99, 114, 101, 97, 115, 101, 65, 109, 111, 117, 110, 116>>
DecreaseAmount ==
    <<68, 101, 99, 114, 101, 97, 115, 101, 65, 109, 111, 117, 110, 116>>
\* 'Amount'
Amount == <<65, 109, 111, 117, 110, 116>>
\* '.json'
DotJson == <<46, 106, 115, 111, 110>>
\* '-'
Dash == <<45>>

\* RELTYPES: type -> (action label, role label), in the dict's order
RELTYPES ==
    << [k |-> Activation,
        v |-> << <<97, 99, 116, 105, 118, 97, 116, 101, 115>>,      \* activates
                 <<97, 99, 116, 105, 118, 97, 116, 111, 114>> >>],  \* activator
       [k |-> Inhibition,
        v |-> << <<105, 110, 104, 105, 98, 105, 116, 115>>,         \* inhibits
                 <<105, 110, 104, 105, 98, 105, 116, 111, 114>> >>],\* inhibitor
       [k |-> IncreaseAmount,
        v |-> << <<105, 110, 99, 114, 101, 97, 115, 101, 115>>,     \* increases
                 <<105, 110, 99, 114, 101, 97, 115, 101, 114>> >>], \* increaser
       [k |-> DecreaseAmount,
        v |-> << <<100, 101, 99, 114, 101, 97, 115, 101, 115>>,     \* decreases
                 <<100, 101, 99, 114, 101, 97, 115, 101, 114>> >>] >> \* decreaser

\* translate_reltype_into_role taking the action label
translate_reltype_into_role_action(reltype) ==
    (IF HasKey(RELTYPES, reltype) THEN Lookup(RELTYPES, reltype)
                                  ELSE <<None, None>>)[1]

translate_reltype_into_role(reltype) ==
    (IF HasKey(RELTYPES, reltype) THEN Lookup(RELTYPES, reltype)
                                  ELSE <<None, None>>)[2]

\* Metadata.get_sha: pmid2sha.get(pmid)
get_sha(md, pmid) == DictGet(md, pmid)

----------------------------------------------------------------------------
(* HarvardResults.collect_relations *)

\* A raw record (a JSON object) is a function on the keys it has; HasField is
\* "key in obj", FieldGet is obj.get(key).
HasField(obj, key) == key \in DOMAIN obj
FieldGet(obj, key) == IF HasField(obj, key) THEN obj[key] ELSE None

\* target_relations with a fifth type, 'Complex'
target_relations_and_complex ==
    {Activation, Inhibition, IncreaseAmount, DecreaseAmount,
     <<67, 111, 109, 112, 108, 101, 120>>}

target_relations == {Activation, Inhibition, IncreaseAmount, DecreaseAmount}

\* sha is not None, for the pmid of the evidence entry e
resolves(md, e) == get_sha(md, FieldGet(e, "pmid")) # None

\* collect_evidence giving up the whole list at an entry that does not resolve
collect_evidence_all_or_nothing(md, es) ==
    IF \E i \in 1..Len(es) : ~resolves(md, es[i]) THEN <<>>
    ELSE [i \in 1..Len(es) |->
             <<FieldGet(es[i], "pmid"), get_sha(md, FieldGet(es[i], "pmid")),
               FieldGet(es[i], "text")>>]

\* the inner loop: the (pmid, sha, text) triples of the entries whose pmid
\* resolves, in the order of the entries
collect_evidence(md, es) ==
    LET kept == SelectSeq(es, LAMBDA e : resolves(md, e))
    IN [i \in 1..Len(kept) |->
           <<FieldGet(kept[i], "pmid"), get_sha(md, FieldGet(kept[i], "pmid")),
             FieldGet(kept[i], "text")>>]

\* result['subj']['name'] and result['obj']['name'] raise no KeyError
has_subj_and_obj(result) ==
    /\ HasField(result, "subj") /\ HasField(result.subj, "name")
    /\ HasField(result, "obj") /\ HasField(result.obj, "name")

\* collect_loop without the test "if evidence"
RECURSIVE collect_loop_keeping_empty(_, _, _)
collect_loop_keeping_empty(md, rs, acc) ==
    IF rs = <<>> THEN [raised |-> FALSE, relations |-> acc]
    ELSE LET result == Head(rs)
         IN IF result.type \notin target_relations
            THEN collect_loop_keeping_empty(md, Tail(rs), acc)
            ELSE IF ~has_subj_and_obj(result)
            THEN collect_loop_keeping_empty(md, Tail(rs), acc)
            ELSE IF ~HasField(result, "evidence")
            THEN [raised |-> TRUE, relations |-> acc]
            ELSE collect_loop_keeping_empty(md, Tail(rs),
                     Append(acc, <<result.type, result.subj.name,
                                   result.obj.name,
                                   collect_evidence(md, result.evidence)>>))

\* the outer loop over the records left, relations being the list built so
\* far: [raised, relations]; raised is the KeyError of result['evidence']
RECURSIVE collect_loop(_, _, _)
collect_loop(md, rs, acc) ==
    IF rs = <<>> THEN [raised |-> FALSE, relations |-> acc]
    ELSE LET result == Head(rs)
             reltype == result.type
         IN IF reltype \notin target_relations
            THEN collect_loop(md, Tail(rs), acc)
            ELSE IF ~has_subj_and_obj(result)
            THEN collect_loop(md, Tail(rs), acc)
            ELSE IF ~HasField(result, "evidence")
            THEN [raised |-> TRUE, relations |-> acc]
            ELSE LET evidence == collect_evidence(md, result.evidence)
                     rel == <<reltype, result.subj.name, result.obj.name,
                              evidence>>
                 IN collect_loop(md, Tail(rs),
                        IF evidence # <<>> THEN Append(acc, rel) ELSE acc)

\* collect_relations without the [:n]
collect_relations_unsliced(md, rs, n) == collect_loop(md, rs, <<>>)

collect_relations(md, rs, n) == collect_loop(md, Slice(rs, n), <<>>)

----------------------------------------------------------------------------
(* reify_relations; a relation rel is <<reltype, sub, obj, evidence>>, the
   Python tuple rel[0..3] *)

empty_by_type == [i \in 1..Len(RELTYPES) |-> [k |-> RELTYPES[i].k, v |-> <<>>]]

\* the reified key without the role of the type
reified_key_without_role(rel) == Str(rel[3])

reified_key(rel) == Str(rel[3]) \o Dash \o Str(translate_reltype_into_role(rel[1]))

\* reify_loop putting the new evidence before the old
RECURSIVE reify_loop_prepending(_, _)
reify_loop_prepending(rs, rels) ==
    IF rs = <<>> THEN rels
    ELSE LET rel == Head(rs)
             reified_rel == reified_key(rel)
             bytype == SetDefault(Lookup(rels, rel[1]), reified_rel, <<>>)
             ds == [i \in 1..Len(rel[4]) |->
                       [pmid |-> rel[4][i][1], sha |-> rel[4][i][2],
                        text |-> rel[4][i][3]]]
             subjects == SetDefault(Lookup(bytype, reified_rel), rel[2], <<>>)
             extended == DictSet(subjects, rel[2], ds \o Lookup(subjects, rel[2]))
         IN reify_loop_prepending(Tail(rs),
                DictSet(rels, rel[1], DictSet(bytype, reified_rel, extended)))

RECURSIVE reify_loop(_, _)
reify_loop(rs, rels) ==
    IF rs = <<>> THEN rels
    ELSE LET rel == Head(rs)
             reified_rel == reified_key(rel)
             bytype == SetDefault(Lookup(rels, rel[1]), reified_rel, <<>>)
             ds == [i \in 1..Len(rel[4]) |->
                       [pmid |-> rel[4][i][1], sha |-> rel[4][i][2],
                        text |-> rel[4][i][3]]]
             subjects == SetDefault(Lookup(bytype, reified_rel), rel[2], <<>>)
             extended == DictSet(subjects, rel[2], Lookup(subjects, rel[2]) \o ds)
         IN reify_loop(Tail(rs),
                DictSet(rels, rel[1], DictSet(bytype, reified_rel, extended)))

\* reify_relations taking the relations last to first
reify_relations_last_first(rs) == reify_loop(Reversed(rs), empty_by_type)

reify_relations(rs) == reify_loop(rs, empty_by_type)

----------------------------------------------------------------------------
(* RelationImporter.filter_relobjs *)

\* sum([len(sents) for sents in subj_sentences])
RECURSIVE size_of(_)
size_of(subj_sentences) ==
    IF subj_sentences = <<>> THEN 0
    ELSE Len(Head(subj_sentences)) + size_of(Tail(subj_sentences))

\* is_big with the bound made exclusive
is_big_exclusive(subj_sentences, reltype) ==
    LET minimum_size == IF EndsWith(reltype, Amount) THEN 25 ELSE 100
    IN size_of(subj_sentences) > minimum_size

is_big(subj_sentences, reltype) ==
    LET minimum_size == IF EndsWith(reltype, Amount) THEN 25 ELSE 100
    IN size_of(subj_sentences) >= minimum_size

\* a < b on the tuples (len(v), k, v): the third component is never compared,
\* the k being the pairwise distinct keys of one dict
TupleLess(a, b) == a[1] < b[1] \/ (a[1] = b[1] /\ StrLess(a[2], b[2]))

\* sorted(seq): ascending, stable
RECURSIVE InsertSorted(_, _)
InsertSorted(sorted, x) ==
    IF sorted = <<>> THEN <<x>>
    ELSE IF TupleLess(x, sorted[Len(sorted)])
         THEN Append(InsertSorted(SubSeq(sorted, 1, Len(sorted) - 1), x),
                     sorted[Len(sorted)])
         ELSE Append(sorted, x)

RECURSIVE Sorted(_)
Sorted(seq) ==
    IF seq = <<>> THEN <<>>
    ELSE InsertSorted(Sorted(SubSeq(seq, 1, Len(seq) - 1)), seq[Len(seq)])

\* subjects_sorted without the reversal: ascending
subjects_sorted_ascending(subjects) ==
    Sorted([i \in 1..Len(subjects) |->
               <<Len(subjects[i].v), subjects[i].k, subjects[i].v>>])

\* reversed(sorted([(len(v), k, v) for k, v in subjects.items()]))
subjects_sorted(subjects) ==
    Reversed(Sorted([i \in 1..Len(subjects) |->
                        <<Len(subjects[i].v), subjects[i].k, subjects[i].v>>]))

\* for (i, subj, val) in ...: data.setdefault(subj, []).extend(val)
RECURSIVE fill_data(_, _)
fill_data(data, tuples) ==
    IF tuples = <<>> THEN data
    ELSE LET subj == Head(tuples)[2]
             val == Head(tuples)[3]
             d == SetDefault(data, subj, <<>>)
         IN fill_data(DictSet(d, subj, Lookup(d, subj) \o val), Tail(tuples))

\* filtered_entry with the size taken from the data kept
filtered_entry_size_of_data(subjects) ==
    LET data == fill_data(<<>>, Slice(subjects_sorted(subjects), 8))
    IN [size |-> size_of(Values(data)), data |-> data]

\* filtered_entry without the [:8]
filtered_entry_uncut(subjects) ==
    [size |-> size_of(Values(subjects)),
     data |-> fill_data(<<>>, subjects_sorted(subjects))]

\* the entry stored for one surviving rel_obj
filtered_entry(subjects) ==
    [size |-> size_of(Values(subjects)),
     data |-> fill_data(<<>>, Slice(subjects_sorted(subjects), 8))]

\* the loop over the rel_obj of one reltype
RECURSIVE filter_keys(_, _, _)
filter_keys(reltype, relobjs, out) ==
    IF relobjs = <<>> THEN out
    ELSE LET rel_obj == Head(relobjs).k
             subjects == Head(relobjs).v
         IN IF ~is_big(Values(subjects), reltype)
            THEN filter_keys(reltype, Tail(relobjs), out)
            ELSE filter_keys(reltype, Tail(relobjs),
                     SetDefault(out, rel_obj, filtered_entry(subjects)))

\* the loop over the reltypes of reified_rels
RECURSIVE filter_types(_, _)
filter_types(bytype, out) ==
    IF bytype = <<>> THEN out
    ELSE LET reltype == Head(bytype).k
         IN filter_types(Tail(bytype),
                DictSet(out, reltype,
                    filter_keys(reltype, Head(bytype).v, Lookup(out, reltype))))

filter_relobjs(reified) == filter_types(reified, empty_by_type)

----------------------------------------------------------------------------
(* RelationImporter.invert_filtered_relobjs *)

\* The four nested loops visit the evidence items e of filtered_rels in one
\* order; inverted_items is the sequence of the (e['sha'] + '.json',
\* (relobj, subj)) they handle, in that order.
\* items_of_subject listing a document once
items_of_subject_once(relobj, subj, es) ==
    LET first == SelectSeq([i \in 1..Len(es) |-> i],
                     LAMBDA i : \A j \in 1..(i - 1) : es[j].sha # es[i].sha)
    IN [n \in 1..Len(first) |->
           [fname |-> es[first[n]].sha \o DotJson, pair |-> <<relobj, subj>>]]

items_of_subject(relobj, subj, es) ==
    [i \in 1..Len(es) |->
        [fname |-> es[i].sha \o DotJson, pair |-> <<relobj, subj>>]]

RECURSIVE items_of_subjects(_, _)
items_of_subjects(relobj, data) ==
    IF data = <<>> THEN <<>>
    ELSE items_of_subject(relobj, Head(data).k, Head(data).v)
             \o items_of_subjects(relobj, Tail(data))

RECURSIVE items_of_keys(_)
items_of_keys(relobjs) ==
    IF relobjs = <<>> THEN <<>>
    ELSE items_of_subjects(Head(relobjs).k, Head(relobjs).v.data)
             \o items_of_keys(Tail(relobjs))

\* for reltype in self.reified_rels: for relobj in filtered_rels[reltype]
RECURSIVE items_of_types(_, _)
items_of_types(reltypes, filtered) ==
    IF reltypes = <<>> THEN <<>>
    ELSE items_of_keys(Lookup(filtered, Head(reltypes)))
             \o items_of_types(Tail(reltypes), filtered)

\* inverted_rels.setdefault(fname, []).append(pair) for each item in turn:
\* the keys in the order of their first item, each with its pairs in order
append_all(items) ==
    LET first == SelectSeq([i \in 1..Len(items) |-> i],
                     LAMBDA i : \A j \in 1..(i - 1) :
                                   items[j].fname # items[i].fname)
        pairs(fname) ==
            LET mine == SelectSeq(items, LAMBDA x : x.fname = fname)
            IN [j \in 1..Len(mine) |-> mine[j].pair]
    IN [n \in 1..Len(first) |->
           [k |-> items[first[n]].fname, v |-> pairs(items[first[n]].fname)]]

\* as invert_filtered_relobjs, over every key and subject of reified_rels
invert_reified_relobjs(reified, filtered) ==
    LET uncut(relobjs) ==
            [j \in 1..Len(relobjs) |->
                [k |-> relobjs[j].k,
                 v |-> [size |-> size_of(Values(relobjs[j].v)),
                        data |-> relobjs[j].v]]]
        unfiltered == [i \in 1..Len(reified) |->
                          [k |-> reified[i].k, v |-> uncut(reified[i].v)]]
    IN append_all(items_of_types(Keys(reified), unfiltered))

invert_filtered_relobjs(reified, filtered) ==
    append_all(items_of_types(Keys(reified), filtered))

----------------------------------------------------------------------------
(* The state: RelationImporter after __init__, and the calls of convert *)

\* the n of collect_relations, which convert leaves at its default; the
\* variable collect_n is the n of the call
DefaultN == 100000

\* self.relations = self.results.collect_relations(self.metadata)
CollectRelations ==
    /\ pc = "start"
    /\ LET out == collect_relations(metadata, results, collect_n)
       IN IF out.raised
          THEN pc' = "raised" /\ UNCHANGED relations
          ELSE pc' = "collected" /\ relations' = out.relations
    /\ UNCHANGED <<results, metadata, collect_n, reified_rels, filtered_rels,
                   inverted_rels, previous>>

\* as ReifyRelations, adding to the index the attribute already holds
ReifyRelations_into_previous ==
    /\ pc = "collected"
    /\ reified_rels' = reify_loop(relations, IF reified_rels = <<>>
                                             THEN empty_by_type
                                             ELSE reified_rels)
    /\ pc' = "reified"
    /\ UNCHANGED <<results, metadata, collect_n, relations, filtered_rels,
                   inverted_rels, previous>>

\* self.reified_rels = reify_relations(self.relations)
ReifyRelations ==
    /\ pc = "collected"
    /\ reified_rels' = reify_relations(relations)
    /\ pc' = "reified"
    /\ UNCHANGED <<results, metadata, collect_n, relations, filtered_rels,
                   inverted_rels, previous>>

\* as FilterRelobjs, sorting and cutting the subjects of a surviving key in
\* self.reified_rels itself
FilterRelobjs_cutting_in_place ==
    /\ pc = "reified"
    /\ filtered_rels' = filter_relobjs(reified_rels)
    /\ reified_rels' =
          [i \in 1..Len(reified_rels) |->
              [k |-> reified_rels[i].k,
               v |-> [j \in 1..Len(reified_rels[i].v) |->
                        LET relobj == reified_rels[i].v[j]
                        IN IF is_big(Values(relobj.v), reified_rels[i].k)
                           THEN [k |-> relobj.k,
                                 v |-> filtered_entry(relobj.v).data]
                           ELSE relobj]]]
    /\ pc' = "filtered"
    /\ UNCHANGED <<results, metadata, collect_n, relations, inverted_rels,
                   previous>>

\* self.filter_relobjs()
FilterRelobjs ==
    /\ pc = "reified"
    /\ filtered_rels' = filter_relobjs(reified_rels)
    /\ pc' = "filtered"
    /\ UNCHANGED <<results, metadata, collect_n, relations, reified_rels,
                   inverted_rels, previous>>

\* self.invert_filtered_relobjs()
InvertFilteredRelobjs ==
    /\ pc = "filtered"
    /\ inverted_rels' = invert_filtered_relobjs(reified_rels, filtered_rels)
    /\ pc' = "done"
    /\ UNCHANGED <<results, metadata, collect_n, relations, reified_rels,
                   filtered_rels, previous>>

Next ==
    \/ CollectRelations
    \/ ReifyRelations
    \/ FilterRelobjs
    \/ InvertFilteredRelobjs

\* convert called once more on the same RelationImporter: every attribute
\* still holds what the first call left in it; previous remembers the two
\* indexes of the first call
ConvertAgain ==
    /\ pc = "done"
    /\ previous = <<>>
    /\ previous' = [filtered_rels |-> filtered_rels,
                    inverted_rels |-> inverted_rels]
    /\ pc' = "start"
    /\ UNCHANGED <<results, metadata, collect_n, relations, reified_rels,
                   filtered_rels, inverted_rels>>

NextAgain ==
    \/ Next
    \/ ConvertAgain

----------------------------------------------------------------------------
(* Inputs: the Harvard results and the metadata the importer is built on *)

\* at most MaxRecords records drawn freely from Records
MaxRecords == 2
\* NumSubjects records of one type and object, one subject each
NumSubjects == 9
\* the largest n collect_relations is called with, apart from its default
MaxLimit == 2

IL12 == <<73, 76, 49, 50>>
IL6 == <<73, 76, 54>>
TNF == <<84, 78, 70>>
IFN == <<73, 70, 78>>
\* 'Complex', a type collect_relations does not collect
Complex == <<67, 111, 109, 112, 108, 101, 120>>
pm1 == <<112, 109, 49>>
pm2 == <<112, 109, 50>>
pm3 == <<112, 109, 51>>
pm4 == <<112, 109, 52>>
pm9 == <<112, 109, 57>>
sha1 == <<115, 104, 97, 49>>
sha2 == <<115, 104, 97, 50>>
sha3 == <<115, 104, 97, 51>>
t0 == <<116, 48>>
t1 == <<116, 49>>

\* pmid2sha: pm1 and pm3 are two ids of one document, pm9 is unknown
MetaA == << [k |-> pm1, v |-> sha1], [k |-> pm2, v |-> sha2],
            [k |-> pm3, v |-> sha1], [k |-> pm4, v |-> sha3] >>
\* pmid2sha knowing pm9 and not pm1
MetaB == << [k |-> pm9, v |-> sha3], [k |-> pm2, v |-> sha2] >>

\* evidence lists: the n first entries of a repeating pattern
EvList(n, pat) == [i \in 1..n |-> pat[((i - 1) % Len(pat)) + 1]]
PatGood == << [pmid |-> pm1, text |-> t0], [pmid |-> pm2, text |-> t1],
              [pmid |-> pm3, text |-> t0] >>
PatMixed == << [pmid |-> pm9, text |-> t0], [pmid |-> pm1, text |-> t1],
               [text |-> t0], [pmid |-> pm2] >>
\* a document no other pattern cites under MetaA
PatOther == << [pmid |-> pm4, text |-> t0], [pmid |-> pm9, text |-> t1] >>
PatBad == << [pmid |-> <<112, 109, 48>>, text |-> t1], [text |-> t0] >>

Rec(type, subj, obj, evidence) ==
    [type |-> type, subj |-> [name |-> subj], obj |-> [name |-> obj],
     evidence |-> evidence]

Records ==
    { Rec(IncreaseAmount, IL12, TNF, EvList(12, PatGood)),
      Rec(IncreaseAmount, IL12, TNF, EvList(13, PatGood)),
      Rec(IncreaseAmount, IL6, TNF, EvList(13, PatGood)),
      Rec(IncreaseAmount, IL6, TNF, EvList(4, PatMixed)),
      Rec(IncreaseAmount, IL12, IFN, EvList(50, PatMixed)),
      Rec(DecreaseAmount, IL12, TNF, EvList(50, PatMixed)),
      Rec(Inhibition, IL6, TNF, EvList(4, PatOther)),
      Rec(Activation, IL12, TNF, EvList(99, PatGood)),
      Rec(Activation, IL12, TNF, EvList(100, PatGood)),
      Rec(Activation, IL6, TNF, EvList(2, PatMixed)),
      Rec(Complex, IL12, TNF, EvList(12, PatGood)),
      Rec(IncreaseAmount, IL12, TNF, <<>>),
      Rec(IncreaseAmount, IL12, TNF, EvList(2, PatBad)),
      [type |-> IncreaseAmount, obj |-> [name |-> TNF],
       evidence |-> EvList(12, PatGood)],
      [type |-> IncreaseAmount, subj |-> [db_refs |-> <<>>],
       obj |-> [name |-> TNF], evidence |-> EvList(12, PatGood)],
      [type |-> Activation, subj |-> [name |-> IL12],
       evidence |-> EvList(12, PatGood)],
      [type |-> IncreaseAmount, subj |-> [name |-> IL12],
       obj |-> [name |-> TNF]],
      [type |-> Complex, subj |-> [name |-> IL12], obj |-> [name |-> TNF]] }

SeqsUpTo(S, n) == UNION { [1..m -> S] : m \in 0..n }

SmallInputs == SeqsUpTo(Records, MaxRecords) \X {MetaA, MetaB}

\* subject names, in an order that is not the sorted one
SubjectNames ==
    <<
       <<66>>,  \* B
       <<73, 76, 49, 50>>,  \* IL12
       <<97>>,  \* a
       <<65, 66>>,  \* AB
       <<84, 78, 70>>,  \* TNF
       <<73, 76, 54>>,  \* IL6
       <<65>>,  \* A
       <<90>>,  \* Z
       <<73, 76, 49>>,  \* IL1
       <<98>>,  \* b
       <<73, 76>>,  \* IL
       <<67>> >>  \* C

\* the evidence counts the NumSubjects records draw from, by type
CountChoices(type) == IF type = Activation THEN {11, 12} ELSE {2, 3}

ManySubjects(type, counts) ==
    [i \in 1..NumSubjects |->
        Rec(type, SubjectNames[i], TNF, EvList(counts[i], PatGood))]

BigInputs ==
    UNION { { <<ManySubjects(type, counts), MetaA>> :
                counts \in [1..NumSubjects -> CountChoices(type)]
                              \cup {[i \in 1..NumSubjects |-> i]} } :
            type \in {Activation, IncreaseAmount} }
        \cup { <<ManySubjects(type, [i \in 1..NumSubjects |-> i]), MetaA>> :
                    type \in {Inhibition, DecreaseAmount} }

Inputs == SmallInputs \cup BigInputs

\* RelationImporter.__init__ on one of the inputs; limit is the n
\* collect_relations will be called with
Start(inputs, limit) ==
    /\ \E input \in inputs : results = input[1] /\ metadata = input[2]
    /\ collect_n = limit
    /\ pc = "start"
    /\ relations = <<>>
    /\ reified_rels = <<>>
    /\ filtered_rels = <<>>
    /\ inverted_rels = <<>>
    /\ previous = <<>>

Init == Start(Inputs, DefaultN)

Spec == Init /\ [][Next]_vars

\* the inputs on which convert is called twice
AgainInputs ==
    (SeqsUpTo(Records, MaxRecords) \X {MetaA})
        \cup { <<ManySubjects(type, [i \in 1..NumSubjects |-> i]), MetaA>> :
                    type \in {Activation, IncreaseAmount} }

InitAgain == Start(AgainInputs, DefaultN)

\* the inputs that are run whole and in two parts: records of three types
\* with short evidence lists, and the subjects with counts 1, 2, 3, ...
SplitRecords ==
    { r \in Records : r.type \in {IncreaseAmount, DecreaseAmount, Inhibition} }
SplitInputs ==
    (SeqsUpTo(SplitRecords, MaxRecords) \X {MetaA})
        \cup { <<ManySubjects(type, [i \in 1..NumSubjects |-> i]), MetaA>> :
                    type \in {Activation, IncreaseAmount} }

InitSplit == Start(SplitInputs, DefaultN)

SpecSplit == InitSplit /\ [][Next]_vars

\* collect_relations called with an n of 0 to MaxLimit instead of its default
InitFirstN == \E limit \in 0..MaxLimit : Start(SplitInputs, limit)

SpecFirstN == InitFirstN /\ [][Next]_vars

SpecAgain == InitAgain /\ [][NextAgain]_vars

----------------------------------------------------------------------------
(* Vocabulary of the properties *)

AfterReify == pc \in {"reified", "filtered", "done"}
AfterFilter == pc \in {"filtered", "done"}

Indices(seq) == 1..Len(seq)

\* the number of evidence items under the subjects of one reified key
EvidenceCount(subjects) ==
    Cardinality(UNION { {i} \X Indices(subjects[i].v) : i \in Indices(subjects) })

\* the number of evidence items subject subj has under a reified key
CountOf(subjects, subj) == Len(Lookup(subjects, subj))

\* subject a ranks above subject b: more evidence, or as much and a later name
RanksAbove(subjects, a, b) ==
    \/ CountOf(subjects, a) > CountOf(subjects, b)
    \/ CountOf(subjects, a) = CountOf(subjects, b) /\ StrLess(b, a)

Threshold(reltype) ==
    IF reltype \in {IncreaseAmount, DecreaseAmount} THEN 25 ELSE 100

\* the <<reltype, rel_obj>> of the keys of the ReificationIndex, of the
\* FilteredIndex
ReifiedKeys ==
    UNION { { <<reified_rels[i].k, reified_rels[i].v[j].k>> :
                j \in Indices(reified_rels[i].v) } : i \in Indices(reified_rels) }
SurvivingKeys ==
    UNION { { <<filtered_rels[i].k, filtered_rels[i].v[j].k>> :
                j \in Indices(filtered_rels[i].v) } : i \in Indices(filtered_rels) }
SubjectsOf(tk) == Lookup(Lookup(reified_rels, tk[1]), tk[2])
EntryOf(tk) == Lookup(Lookup(filtered_rels, tk[1]), tk[2])

----------------------------------------------------------------------------
\* C1: after filter_relobjs a reified key of type t is a key of
\* filtered_rels[t] exactly when its aggregate evidence count is >= 25 for a
\* type ending in Amount and >= 100 for the other types (inclusive bounds).
C1_SignificanceThreshold ==
    AfterFilter =>
        /\ SurvivingKeys \subseteq ReifiedKeys
        /\ \A tk \in ReifiedKeys :
              tk \in SurvivingKeys <=>
                  EvidenceCount(SubjectsOf(tk)) >= Threshold(tk[1])

\* C1 witness: an Activation key with exactly 100 evidence items survives and
\* an IncreaseAmount key with fewer than 25 is absent.
C1_Witness ==
    /\ AfterFilter
    /\ \E tk \in SurvivingKeys :
          tk[1] = Activation /\ EvidenceCount(SubjectsOf(tk)) = 100
    /\ \E tk \in ReifiedKeys \ SurvivingKeys :
          tk[1] = IncreaseAmount /\ EvidenceCount(SubjectsOf(tk)) < 25

\* C2: a surviving key keeps min(8, number of subjects) subjects, in ranked
\* order (count descending, then name descending), and every subject left
\* out ranks below every subject kept.
C2_TopEightRanked ==
    AfterFilter =>
        \A tk \in SurvivingKeys :
            LET subjects == SubjectsOf(tk)
                data == EntryOf(tk).data
                kept == { data[i].k : i \in Indices(data) }
                all == { subjects[i].k : i \in Indices(subjects) }
            IN /\ Len(data) <= 8
               /\ Len(data) = (IF Len(subjects) < 8 THEN Len(subjects) ELSE 8)
               /\ Cardinality(kept) = Len(data)
               /\ kept \subseteq all
               /\ \A i, j \in Indices(data) :
                     i < j => RanksAbove(subjects, data[i].k, data[j].k)
               /\ \A a \in kept, b \in all \ kept : RanksAbove(subjects, a, b)

\* C2 witness: a surviving key with more than 8 subjects where the subject
\* left out has as much evidence as one kept, so the name decides.
C2_Witness ==
    /\ AfterFilter
    /\ \E tk \in SurvivingKeys :
          LET subjects == SubjectsOf(tk)
              data == EntryOf(tk).data
          IN /\ Len(subjects) > 8
             /\ \E i \in Indices(data), j \in Indices(subjects) :
                   /\ ~HasKey(data, subjects[j].k)
                   /\ Len(subjects[j].v) = Len(data[i].v)

\* C3: the size recorded for a surviving key is the evidence count over all
\* the subjects of the key in the ReificationIndex, not over the data kept.
C3_SizeBeforeCut ==
    AfterFilter =>
        \A tk \in SurvivingKeys :
            /\ EntryOf(tk).size = EvidenceCount(SubjectsOf(tk))
            /\ EntryOf(tk).size >= EvidenceCount(EntryOf(tk).data)

\* C3 witness: a surviving key whose size exceeds the evidence kept in data.
C3_Witness ==
    /\ AfterFilter
    /\ \E tk \in SurvivingKeys :
          EntryOf(tk).size > EvidenceCount(EntryOf(tk).data)

----------------------------------------------------------------------------
(* Vocabulary of the collector's and the reifier's properties *)

RecognizedTypes == {Activation, Inhibition, IncreaseAmount, DecreaseAmount}

\* the record is of a recognized type and has a subject and an object name
Eligible(result) ==
    /\ result.type \in RecognizedTypes
    /\ "subj" \in DOMAIN result /\ "name" \in DOMAIN result.subj
    /\ "obj" \in DOMAIN result /\ "name" \in DOMAIN result.obj

\* the external id of an evidence entry, None when it has none
ExternalId(e) == IF "pmid" \in DOMAIN e THEN e.pmid ELSE None
Resolvable(e) == \E i \in Indices(metadata) : metadata[i].k = ExternalId(e)
InternalId(e) ==
    metadata[CHOOSE i \in Indices(metadata) : metadata[i].k = ExternalId(e)].v

\* the positions of the resolvable entries of a record's evidence, ascending
ResolvablePositions(result) ==
    IF "evidence" \in DOMAIN result
    THEN { i \in Indices(result.evidence) : Resolvable(result.evidence[i]) }
    ELSE {}

\* the positions in results of the records that emit a relation
Emitting == { i \in Indices(results) :
                Eligible(results[i]) /\ ResolvablePositions(results[i]) # {} }

\* the rank of x among the numbers of S: 1 for the smallest
Rank(S, x) == Cardinality({ y \in S : y <= x })

----------------------------------------------------------------------------
\* C4: for a record of a recognized type with subject and object name,
\* collect_relations keeps exactly the evidence entries whose external id
\* resolves, in their order, each as (external id, internal id, text), and
\* emits the relation exactly when at least one entry was kept.
C4_ResolvedEvidenceKept ==
    pc = "collected" =>
        /\ Len(relations) = Cardinality(Emitting)
        /\ \A i \in Emitting :
              LET result == results[i]
                  pos == ResolvablePositions(result)
                  evidence == relations[Rank(Emitting, i)][4]
              IN /\ Len(evidence) = Cardinality(pos)
                 /\ \A p \in pos :
                       LET e == result.evidence[p]
                       IN evidence[Rank(pos, p)] =
                              <<e.pmid, InternalId(e),
                                IF "text" \in DOMAIN e THEN e.text ELSE None>>

\* C4 witness: an emitted relation that lost an unresolvable entry standing
\* before a resolvable one, next to a record that lost all its entries.
C4_Witness ==
    /\ pc = "collected"
    /\ \E i \in Emitting :
          \E a, b \in Indices(results[i].evidence) :
              /\ a < b
              /\ ~Resolvable(results[i].evidence[a])
              /\ Resolvable(results[i].evidence[b])
    /\ \E i \in Indices(results) \ Emitting :
          /\ Eligible(results[i])
          /\ results[i].evidence # <<>>

\* C5: every (type, key, subject) of the ReificationIndex has a non-empty
\* evidence list and comes from a record with a resolvable evidence entry;
\* no key is left without subjects.
C5_NoEmptyEvidence ==
    AfterReify =>
        \A tk \in ReifiedKeys :
            LET subjects == SubjectsOf(tk)
            IN /\ subjects # <<>>
               /\ \A s \in Indices(subjects) :
                     /\ subjects[s].v # <<>>
                     /\ \E i \in Emitting :
                           /\ results[i].type = tk[1]
                           /\ results[i].subj.name = subjects[s].k
                           /\ tk[2] = results[i].obj.name \o Dash \o
                                  translate_reltype_into_role(tk[1])

\* C5 witness: the index is built, and a record of a recognized type with
\* subject and object lost all its evidence and left no subject behind.
C5_Witness ==
    /\ AfterReify
    /\ ReifiedKeys # {}
    /\ \E i \in Indices(results) \ Emitting :
          /\ Eligible(results[i])
          /\ results[i].evidence # <<>>
          /\ \A tk \in ReifiedKeys :
                ~HasKey(SubjectsOf(tk), results[i].subj.name)

\* C6: collect_relations raises no error, whatever fields the records have
\* or lack.
C6_NeverRaises == pc # "raised"

\* the relations collect_relations returns for the one record result
PerRecord(result) == collect_relations(metadata, <<result>>, DefaultN)

RECURSIVE ConcatPerRecord(_)
ConcatPerRecord(rs) ==
    IF rs = <<>> THEN <<>>
    ELSE PerRecord(Head(rs)).relations \o ConcatPerRecord(Tail(rs))

\* C7: a relation is emitted only for records of one of the four types with
\* a subject and an object name; every other record yields nothing, and the
\* output is the in-order concatenation of the per-record results.
C7_OnlyRecognizedWithNames ==
    pc = "collected" =>
        /\ \A n \in Indices(relations) :
              /\ relations[n][1] \in RecognizedTypes
              /\ \E i \in Indices(results) :
                    /\ Eligible(results[i])
                    /\ relations[n][1] = results[i].type
                    /\ relations[n][2] = results[i].subj.name
                    /\ relations[n][3] = results[i].obj.name
        /\ \A i \in Indices(results) :
              ~Eligible(results[i]) =>
                  /\ ~PerRecord(results[i]).raised
                  /\ PerRecord(results[i]).relations = <<>>
        /\ relations = ConcatPerRecord(results)

\* C7 witness: a relation is emitted for a record that follows a record of
\* an unrecognized type or without subject or object name.
C7_Witness ==
    /\ pc = "collected"
    /\ \E i, j \in Indices(results) :
          /\ i < j
          /\ ~Eligible(results[i])
          /\ j \in Emitting

----------------------------------------------------------------------------
\* the role label of each relation type: activator, inhibitor, increaser,
\* decreaser
RoleLabel(reltype) ==
    CASE reltype = Activation -> <<97, 99, 116, 105, 118, 97, 116, 111, 114>>
      [] reltype = Inhibition -> <<105, 110, 104, 105, 98, 105, 116, 111, 114>>
      [] reltype = IncreaseAmount -> <<105, 110, 99, 114, 101, 97, 115, 101, 114>>
      [] reltype = DecreaseAmount -> <<100, 101, 99, 114, 101, 97, 115, 101, 114>>

\* "<object>-<role>" for a relation of type reltype
KeyFor(reltype, obj) == obj \o <<45>> \o RoleLabel(reltype)

\* C8: every key under type t is "<object>-<role of t>" for the object of an
\* input relation of type t; a relation lands under the key of its type and
\* object whatever its subject, and only under its own type.
C8_KeyIsObjectDashRole ==
    AfterReify =>
        /\ { reified_rels[i].k : i \in Indices(reified_rels) } = RecognizedTypes
        /\ Len(reified_rels) = Cardinality(RecognizedTypes)
        /\ \A i \in Indices(reified_rels) :
              Cardinality({ reified_rels[i].v[j].k :
                              j \in Indices(reified_rels[i].v) })
                  = Len(reified_rels[i].v)
        /\ \A tk \in ReifiedKeys :
              \E n \in Indices(relations) :
                  /\ relations[n][1] = tk[1]
                  /\ tk[2] = KeyFor(tk[1], relations[n][3])
        /\ \A n \in Indices(relations) :
              LET tk == <<relations[n][1],
                         KeyFor(relations[n][1], relations[n][3])>>
              IN /\ tk \in ReifiedKeys
                 /\ HasKey(SubjectsOf(tk), relations[n][2])

\* C8 witness: two relations of one type and object with different subjects
\* share one key, which holds both subjects.
C8_Witness ==
    /\ AfterReify
    /\ \E n, m \in Indices(relations) :
          /\ relations[n][1] = relations[m][1]
          /\ relations[n][3] = relations[m][3]
          /\ relations[n][2] # relations[m][2]
          /\ Len(SubjectsOf(<<relations[n][1],
                  KeyFor(relations[n][1], relations[n][3])>>)) = 2

\* the evidence items reify_relations makes of a relation's evidence
AsItems(evidence) ==
    [i \in Indices(evidence) |->
        [pmid |-> evidence[i][1], sha |-> evidence[i][2],
         text |-> evidence[i][3]]]

\* the relations of one type, key and subject, as positions in relations
Contributing(tk, subj) ==
    { n \in Indices(relations) :
        /\ relations[n][1] = tk[1]
        /\ KeyFor(tk[1], relations[n][3]) = tk[2]
        /\ relations[n][2] = subj }

\* their evidence, concatenated in arrival order
RECURSIVE InArrivalOrder(_, _)
InArrivalOrder(rels, positions) ==
    IF rels = <<>> THEN <<>>
    ELSE InArrivalOrder(SubSeq(rels, 1, Len(rels) - 1), positions)
             \o (IF Len(rels) \in positions THEN AsItems(rels[Len(rels)][4])
                                             ELSE <<>>)

\* C9: the evidence list of (type, key, subject) is the concatenation, in
\* arrival order, of the evidence of the relations with that type, object and
\* subject; its length is the sum of their lengths.
C9_ConcatenationInArrivalOrder ==
    AfterReify =>
        \A tk \in ReifiedKeys :
            \A s \in Indices(SubjectsOf(tk)) :
                LET subj == SubjectsOf(tk)[s].k
                    list == SubjectsOf(tk)[s].v
                    from == Contributing(tk, subj)
                IN /\ list = InArrivalOrder(relations, from)
                   /\ Len(list) = Cardinality(UNION {
                          {n} \X Indices(relations[n][4]) : n \in from })

\* C9 witness: a subject whose list joins two relations with different
\* evidence, one of them repeating an evidence item.
C9_Witness ==
    /\ AfterReify
    /\ \E tk \in ReifiedKeys :
          \E s \in Indices(SubjectsOf(tk)) :
              LET from == Contributing(tk, SubjectsOf(tk)[s].k)
                  list == SubjectsOf(tk)[s].v
              IN /\ \E n, m \in from : relations[n][4] # relations[m][4]
                 /\ \E a, b \in Indices(list) : a # b /\ list[a] = list[b]

----------------------------------------------------------------------------
\* the evidence items kept in filtered_rels, by place: type, key, subject, item
Retained ==
    UNION { UNION { UNION { { <<i, j, s, e>> :
        e \in Indices(filtered_rels[i].v[j].v.data[s].v) } :
        s \in Indices(filtered_rels[i].v[j].v.data) } :
        j \in Indices(filtered_rels[i].v) } :
        i \in Indices(filtered_rels) }
PairOf(x) == <<filtered_rels[x[1]].v[x[2]].k,
               filtered_rels[x[1]].v[x[2]].v.data[x[3]].k>>
DocOf(x) == filtered_rels[x[1]].v[x[2]].v.data[x[3]].v[x[4]].sha

ListFor(name) == IF HasKey(inverted_rels, name)
                 THEN Lookup(inverted_rels, name) ELSE <<>>
Occurrences(list, pair) == Cardinality({ n \in Indices(list) : list[n] = pair })
ListedPairs == UNION { { inverted_rels[n].v[m] : m \in Indices(inverted_rels[n].v) } :
                         n \in Indices(inverted_rels) }

\* the document index agrees with filtered_rels when the list of document d is
\* found under Name(d)
Inverts(Name(_)) ==
    LET docs == { DocOf(x) : x \in Retained }
        pairs == { PairOf(x) : x \in Retained } \cup ListedPairs
    IN /\ { inverted_rels[n].k : n \in Indices(inverted_rels) }
             = { Name(d) : d \in docs }
       /\ \A d \in docs, pair \in pairs :
             Occurrences(ListFor(Name(d)), pair)
                 = Cardinality({ x \in Retained :
                                   DocOf(x) = d /\ PairOf(x) = pair })

SameId(d) == d
FileName(d) == d \o <<46, 106, 115, 111, 110>>

\* C10 as stated: the index is keyed by the internal_doc_id itself, and the
\* list of d holds (key, subject) once per evidence item of d kept under key
\* and subject.
C10_KeyedByInternalDocId == pc = "done" => Inverts(SameId)

\* C10 amended: the index is keyed by the internal_doc_id followed by
\* ".json", and the list of d + ".json" holds (key, subject) once per
\* evidence item of d kept under key and subject, without deduplication.
C10_KeyedByFileName == pc = "done" => Inverts(FileName)

\* C10 witness: a document's list holds one (key, subject) pair twice.
C10_Witness ==
    /\ pc = "done"
    /\ \E n \in Indices(inverted_rels) :
          \E a, b \in Indices(inverted_rels[n].v) :
              a # b /\ inverted_rels[n].v[a] = inverted_rels[n].v[b]

----------------------------------------------------------------------------
\* the documents cited by the evidence in reified_rels
ReifiedDocs ==
    UNION { UNION { UNION { { reified_rels[i].v[j].v[s].v[e].sha :
        e \in Indices(reified_rels[i].v[j].v[s].v) } :
        s \in Indices(reified_rels[i].v[j].v) } :
        j \in Indices(reified_rels[i].v) } :
        i \in Indices(reified_rels) }
RetainedDocs == { DocOf(x) : x \in Retained }

\* every pair listed under a name of the document index goes back to a kept
\* evidence item of the document with that name, no list is empty, and a
\* document without kept evidence has no list
RoundTrip(Name(_)) ==
    LET kept == { <<Name(DocOf(x)), PairOf(x)>> : x \in Retained }
        listed == UNION { { <<inverted_rels[n].k, inverted_rels[n].v[m]>> :
                              m \in Indices(inverted_rels[n].v) } :
                          n \in Indices(inverted_rels) }
    IN /\ \A n \in Indices(inverted_rels) : inverted_rels[n].v # <<>>
       /\ listed \subseteq kept
       /\ \A d \in ReifiedDocs \ RetainedDocs :
             ~HasKey(inverted_rels, Name(d))

\* C11 as stated: every (key, subject) pair listed for a document goes back
\* to an evidence item kept under that key and subject whose internal_doc_id
\* is the document the list is filed under; a document none of whose evidence
\* is kept is absent, and no list is empty.
C11_RoundTripOnInternalDocId == pc = "done" => RoundTrip(SameId)

\* C11 amended: the same, the document a list is filed under being the
\* internal_doc_id followed by ".json".
C11_RoundTripOnFileName == pc = "done" => RoundTrip(FileName)

\* C11 witness: the index lists pairs for some documents while another
\* document is cited only by evidence that was dropped.
C11_Witness ==
    /\ pc = "done"
    /\ inverted_rels # <<>>
    /\ ReifiedDocs \ RetainedDocs # {}

----------------------------------------------------------------------------
\* C12: a second run of collect, reify, filter and invert on the same records
\* and the same resolver, started on the object the first run left behind,
\* ends with the same filtered_rels and inverted_rels as the first, order of
\* keys, subjects, evidence items and pairs included.
C12_SecondRunIdentical ==
    (pc = "done" /\ previous # <<>>)
        => /\ filtered_rels = previous.filtered_rels
           /\ inverted_rels = previous.inverted_rels

\* C12 witness: the second run has ended on indexes that are not empty.
C12_Witness ==
    /\ pc = "done"
    /\ previous # <<>>
    /\ inverted_rels # <<>>
    /\ \E i \in Indices(filtered_rels) : filtered_rels[i].v # <<>>

----------------------------------------------------------------------------
\* a reified key with 9 subjects whose evidence counts are 1, 2, ..., 9
NineSubjectsOneToNine(tk) ==
    LET subjects == SubjectsOf(tk)
    IN /\ Len(subjects) = 9
       /\ { Len(subjects[i].v) : i \in Indices(subjects) } = 1..9

\* the key survives with the 8 subjects of counts 9 down to 2
KeepsNineDownToTwo(tk) ==
    /\ tk \in SurvivingKeys
    /\ LET subjects == SubjectsOf(tk)
           data == EntryOf(tk).data
       IN /\ Len(data) = 8
          /\ { data[i].k : i \in Indices(data) }
                = { subjects[i].k : i \in { j \in Indices(subjects) :
                                              Len(subjects[j].v) >= 2 } }
          /\ \A i \in Indices(data) :
                Len(data[i].v) = CountOf(subjects, data[i].k)
          /\ \A i \in Indices(data) : Len(data[i].v) = 10 - i

\* C13 as stated: a reified key of any relation type with 9 subjects of
\* evidence counts 1..9 is a key of filtered_rels and keeps exactly the 8
\* subjects with counts 9 down to 2.
C13_ScenarioDAnyType ==
    AfterFilter =>
        \A tk \in ReifiedKeys :
            NineSubjectsOneToNine(tk) => KeepsNineDownToTwo(tk)

\* C13 amended: that holds for a key of a type ending in Amount; a key of
\* type Activation or Inhibition with these counts (45 in all) is not a key
\* of filtered_rels.
C13_ScenarioDAmountTypes ==
    AfterFilter =>
        \A tk \in ReifiedKeys :
            NineSubjectsOneToNine(tk) =>
                IF tk[1] \in {IncreaseAmount, DecreaseAmount}
                THEN KeepsNineDownToTwo(tk)
                ELSE tk \notin SurvivingKeys

\* C13 witness: a DecreaseAmount key with counts 1..9 has been filtered.
C13_Witness ==
    /\ AfterFilter
    /\ \E tk \in ReifiedKeys :
          /\ tk[1] = DecreaseAmount
          /\ NineSubjectsOneToNine(tk)
          /\ tk \in SurvivingKeys

----------------------------------------------------------------------------
\* the two consecutive parts of the records, cut after the first k
Before(k) == SubSeq(results, 1, k)
After(k) == SubSeq(results, k + 1, Len(results))

\* the stages run on a part of the records
ReifiedOf(rs) ==
    reify_relations(collect_relations(metadata, rs, DefaultN).relations)
FilteredOf(rs) == filter_relobjs(ReifiedOf(rs))
InvertedOf(rs) == invert_filtered_relobjs(ReifiedOf(rs), FilteredOf(rs))

\* key-wise merge of two mappings: the keys of a in their order, then the
\* keys only b has; a value both have is joined
MergeDict(a, b, Join(_, _)) ==
    [i \in 1..Len(a) |->
        IF HasKey(b, a[i].k)
        THEN [k |-> a[i].k, v |-> Join(a[i].v, Lookup(b, a[i].k))]
        ELSE a[i]]
      \o SelectSeq(b, LAMBDA e : ~HasKey(a, e.k))
AppendLists(x, y) == x \o y
MergeSubjects(x, y) == MergeDict(x, y, AppendLists)
MergeKeys(x, y) == MergeDict(x, y, MergeSubjects)
MergeReified(x, y) == MergeDict(x, y, MergeKeys)
MergeEntry(x, y) ==
    [size |-> x.size + y.size, data |-> MergeSubjects(x.data, y.data)]
MergeEntries(x, y) == MergeDict(x, y, MergeEntry)
MergeFiltered(x, y) == MergeDict(x, y, MergeEntries)
MergeInverted(x, y) == MergeDict(x, y, AppendLists)

\* C14 as stated: for every cut of the records into two consecutive parts,
\* the four stages run on each part and the two filtered_rels and the two
\* inverted_rels merged key-wise give the filtered_rels and inverted_rels of
\* the run on all the records.
C14_MergeAfterAllStages ==
    pc = "done" =>
        \A k \in 0..Len(results) :
            /\ MergeFiltered(FilteredOf(Before(k)), FilteredOf(After(k)))
                  = filtered_rels
            /\ MergeInverted(InvertedOf(Before(k)), InvertedOf(After(k)))
                  = inverted_rels

\* C14 amended: for every cut, collecting and reifying each part, merging the
\* two reified indexes key-wise, and filtering and inverting the merged index
\* gives the reified_rels, filtered_rels and inverted_rels of the run on all
\* the records.
C14_MergeBeforeFilter ==
    pc = "done" =>
        \A k \in 0..Len(results) :
            LET merged == MergeReified(ReifiedOf(Before(k)), ReifiedOf(After(k)))
                kept == filter_relobjs(merged)
            IN /\ merged = reified_rels
               /\ kept = filtered_rels
               /\ invert_filtered_relobjs(merged, kept) = inverted_rels

\* C14 witness: a key survives in the run on all the records and in neither
\* part of some cut.
C14_Witness ==
    /\ pc = "done"
    /\ \E tk \in SurvivingKeys :
          \E k \in 0..Len(results) :
              /\ ~HasKey(Lookup(FilteredOf(Before(k)), tk[1]), tk[2])
              /\ ~HasKey(Lookup(FilteredOf(After(k)), tk[1]), tk[2])

----------------------------------------------------------------------------
\* a step of filter_relobjs or invert_filtered_relobjs leaves reified_rels as
\* it was, and a step of invert_filtered_relobjs leaves filtered_rels as it was
InputsLeftAlone ==
    /\ pc \in {"reified", "filtered"} => reified_rels' = reified_rels
    /\ pc = "filtered" => filtered_rels' = filtered_rels

\* the list kept for a subject is the list reified_rels has for it
KeptListsAreWhole ==
    AfterFilter =>
        \A tk \in SurvivingKeys :
            LET data == EntryOf(tk).data
            IN \A s \in Indices(data) :
                  /\ HasKey(SubjectsOf(tk), data[s].k)
                  /\ data[s].v = Lookup(SubjectsOf(tk), data[s].k)

\* C15: filter_relobjs and invert_filtered_relobjs leave their inputs as they
\* were (reified_rels through both, dropped keys and cut subjects included,
\* and filtered_rels through the inversion), and for every retained subject
\* data[subject] is the evidence list of that subject in reified_rels, item
\* for item.
C15_InputsUnchanged == [][InputsLeftAlone]_vars /\ []KeptListsAreWhole

\* C15 witness: both have run on a key that lost a subject to the cut and
\* keeps a list holding one item twice.
C15_Witness ==
    /\ pc = "done"
    /\ \E tk \in SurvivingKeys :
          /\ Len(SubjectsOf(tk)) > Len(EntryOf(tk).data)
          /\ \E s \in Indices(EntryOf(tk).data) :
                \E a, b \in Indices(EntryOf(tk).data[s].v) :
                    a # b /\ EntryOf(tk).data[s].v[a] = EntryOf(tk).data[s].v[b]

----------------------------------------------------------------------------
\* no key is a key of two types
TypesShareNoKey(keys) == \A a, b \in keys : a[2] = b[2] => a[1] = b[1]

\* object names, among them names that end like a reified key
ObjectNames ==
    LET roles == { RELTYPES[i].v[2] : i \in Indices(RELTYPES) }
    IN {TNF, IFN, <<>>} \cup { TNF \o Dash \o role : role \in roles }

\* C16: the keys of two different types never coincide, in reified_rels, in
\* filtered_rels and for any object names, so that every (key, subject) pair
\* of inverted_rels names one type and one entry of filtered_rels.
C16_TypesShareNoKey ==
    /\ pc = "reified" =>
          /\ TypesShareNoKey(ReifiedKeys)
          /\ TypesShareNoKey({ <<RELTYPES[i].k,
                                  reified_key(<<RELTYPES[i].k, IL12, a, <<>>>>)>> :
                                  i \in Indices(RELTYPES), a \in ObjectNames })
    /\ pc = "done" =>
          /\ TypesShareNoKey(SurvivingKeys)
          /\ \A pair \in ListedPairs :
                Cardinality({ tk \in SurvivingKeys :
                                /\ tk[2] = pair[1]
                                /\ HasKey(EntryOf(tk).data, pair[2]) }) = 1

\* C16 witness: one object has a surviving key under two types, and the
\* document index lists pairs of both.
C16_Witness ==
    /\ pc = "done"
    /\ \E i, j \in Indices(relations) :
          /\ relations[i][1] # relations[j][1]
          /\ relations[i][3] = relations[j][3]
          /\ \A x \in {i, j} :
                /\ <<relations[x][1], KeyFor(relations[x][1], relations[x][3])>>
                      \in SurvivingKeys
                /\ \E pair \in ListedPairs :
                      pair[1] = KeyFor(relations[x][1], relations[x][3])

----------------------------------------------------------------------------
\* the records cut to the first collect_n
FirstN == SubSeq(results, 1, IF collect_n < Len(results) THEN collect_n
                                                         ELSE Len(results))

\* C17: collect_relations called with n examines the first n records only:
\* it raises when it would raise on the records cut to the first n, the
\* relations are those of the first n records, and reified_rels,
\* filtered_rels and inverted_rels are those of the run on the records cut
\* to the first n; nothing comes from a record after the first n.
C17_FirstNRecordsOnly ==
    /\ pc # "start" =>
          (pc = "raised"
             <=> collect_relations(metadata, FirstN, DefaultN).raised)
    /\ pc = "collected" =>
          /\ relations = ConcatPerRecord(FirstN)
          /\ Len(relations) = Cardinality({ i \in Emitting : i <= collect_n })
    /\ pc = "done" =>
          /\ reified_rels = ReifiedOf(FirstN)
          /\ filtered_rels = FilteredOf(FirstN)
          /\ inverted_rels = InvertedOf(FirstN)

\* C17 witness: the run has ended with pairs in the document index, and a
\* record after the first n would have emitted a relation.
C17_Witness ==
    /\ pc = "done"
    /\ inverted_rels # <<>>
    /\ \E i \in Emitting : i > collect_n

====
